---- MODULE Spec2Model ----
(***************************************************************************)
(* A model of the silocoin ledger engine (src/api/src/lib.rs) and of the   *)
(* node that serves it under one exclusive lock (src/api/src/main.rs).     *)
(*                                                                         *)
(* 64-bit integers are kept at their width: a word is four 16-bit limbs,   *)
(* least significant first, so that `amount as i64` (a reinterpretation of *)
(* the same bits) and i64 arithmetic behave as they do in the build.       *)
(*                                                                         *)
(* SHA-256 and ECDSA are not computed. calculate_hash is a deterministic   *)
(* function of the same four fields the code hashes, rendered as a string  *)
(* of HashLen characters; message_bytes is injective (collision-free); a   *)
(* signature names the key that made it and the digest it was made over.   *)
(***************************************************************************)
EXTENDS Integers, Sequences, FiniteSets, TLC

\* ------------------------------------------------------------------ bounds
MaxSends == 2
MaxSyncs == 3
MeshSends == 2
MeshSyncs == 1
LedgerSends == 2
MaxDifficulty == 2
MaxTime == 2
MaxChain == 2

\* ------------------------------------------------------- 64-bit arithmetic
Base == 256 * 256
Half == Base \div 2

Word == [1..4 -> 0..(Base - 1)]

W(n) == <<n, 0, 0, 0>>

\* w + v modulo 2^64 (wrapping_add)
AddW(w, v) ==
  LET s1 == w[1] + v[1]
      s2 == w[2] + v[2] + (s1 \div Base)
      s3 == w[3] + v[3] + (s2 \div Base)
      s4 == w[4] + v[4] + (s3 \div Base)
  IN  <<s1 % Base, s2 % Base, s3 % Base, s4 % Base>>

NotW(w) == <<Base - 1 - w[1], Base - 1 - w[2], Base - 1 - w[3], Base - 1 - w[4]>>

NegW(w) == AddW(NotW(w), W(1))

\* w - v modulo 2^64 (wrapping_sub)
SubW(w, v) == AddW(w, NegW(v))

\* the sign bit of the word read as an i64
IsNeg(w) == w[4] >= Half

\* unsigned w < v
ULess(w, v) ==
  \/ w[4] < v[4]
  \/ w[4] = v[4] /\ w[3] < v[3]
  \/ w[4] = v[4] /\ w[3] = v[3] /\ w[2] < v[2]
  \/ w[4] = v[4] /\ w[3] = v[3] /\ w[2] = v[2] /\ w[1] < v[1]

\* signed (i64) w > v
SGreater(w, v) ==
  IF IsNeg(w) # IsNeg(v) THEN IsNeg(v) ELSE ULess(v, w)

\* i64 addition overflows
AddOverflows(w, v) == IsNeg(w) = IsNeg(v) /\ IsNeg(AddW(w, v)) # IsNeg(w)

\* i64 subtraction overflows
SubOverflows(w, v) == IsNeg(w) # IsNeg(v) /\ IsNeg(SubW(w, v)) # IsNeg(w)

\* `amount as i64`: the same 64 bits, read as two's complement
AsI64(amount) == amount

I64Min == <<0, 0, 0, Half>>
U64Max == <<Base - 1, Base - 1, Base - 1, Base - 1>>

\* the unsigned amount exceeds the signed balance, as integers
AmountExceeds(amount, balance) == IsNeg(balance) \/ ULess(balance, amount)

\* ------------------------------------------------------------------- keys
SecretKeys == {"s1", "s2"}

\* PublicKey::from_secret_key
PublicOf(sk) == IF sk = "s1" THEN "p1" ELSE "p2"

PublicKeys == {PublicOf(sk) : sk \in SecretKeys}

KeyNum(pk) == IF pk = "p1" THEN 1 ELSE 2

\* ------------------------------------------------------------ Transaction
\* SHA-256 over from ++ to ++ big-endian(amount), taken as collision-free
message_bytes(to, from_public, amount) == <<from_public, to, amount>>

sign_ecdsa(message, sk) == [signer |-> PublicOf(sk), message |-> message]

verify_ecdsa(message, signature, pk) ==
  signature.signer = pk /\ signature.message = message

\* anyhow::Result
Ok(x) == [ok |-> TRUE, value |-> x]
Err == [ok |-> FALSE]

\* Signature::to_string: the DER bytes in lower-case hexadecimal
to_string(signature) == [hex |-> "lower", der |-> signature]

\* a string that is not the hexadecimal of a DER signature
NotHex == [hex |-> "none"]

\* Signature::from_str: hexadecimal digits of either case are read, anything else
\* is an error
from_str(s) == IF s.hex = "none" THEN Err ELSE Ok(s.der)

TransactionNew(to, from, amount) ==
  [to |-> to, from |-> PublicOf(from), amount |-> amount,
   signature |-> to_string(sign_ecdsa(message_bytes(to, PublicOf(from), amount), from))]

\* Transaction::verify: the `?` on from_str returns its error
TransactionVerify(tx) ==
  LET message == message_bytes(tx.to, tx.from, tx.amount)
      signature == from_str(tx.signature)
  IN  IF ~signature.ok THEN Err
      ELSE Ok(verify_ecdsa(message, signature.value, tx.from))

\* ------------------------------------------------------------------ Block
\* the characters of a hash and its length (of the 64 and the 44 of the Base64 of
\* a SHA-256)
Alphabet == <<"0", "A", "B", "C">>

HashLen == 3

RECURSIVE Pow(_, _)
Pow(b, e) == IF e = 0 THEN 1 ELSE b * Pow(b, e - 1)

HashSpace == Pow(Len(Alphabet), HashLen)

CharNum(c) == CHOOSE i \in 1..Len(Alphabet) : Alphabet[i] = c

RECURSIVE StrNum(_)
StrNum(s) == IF s = <<>> THEN 0 ELSE (CharNum(s[1]) + 5 * StrNum(Tail(s))) % HashSpace

DigestNum(d) == KeyNum(d[1]) * 3 + KeyNum(d[2]) * 7 + d[3][1] + d[3][4]

\* the number v < HashSpace as HashLen characters, most significant first
RECURSIVE Encode(_, _)
Encode(v, n) ==
  IF n = 0 THEN <<>>
  ELSE Append(Encode(v \div Len(Alphabet), n - 1), Alphabet[(v % Len(Alphabet)) + 1])

calculate_hash(b) ==
  Encode((b.time * 11 + DigestNum(message_bytes(b.transaction.to, b.transaction.from,
                                                b.transaction.amount)) * 13
          + StrNum(b.prev_block_hash) * 17 + b.nonce * 7) % HashSpace, HashLen)

Repeat0(d) == [i \in 1..d |-> "0"]

StartsWith(s, prefix) ==
  Len(s) >= Len(prefix) /\ \A i \in 1..Len(prefix) : s[i] = prefix[i]

verify_hash(b, difficulty) == StartsWith(b.hash, Repeat0(difficulty))

\* mine as it would be with the hash taken before the nonce is incremented
RECURSIVE mine_stale(_, _)
mine_stale(b, difficulty) ==
  IF verify_hash(b, difficulty) THEN b
  ELSE mine_stale([b EXCEPT !.hash = calculate_hash(b), !.nonce = b.nonce + 1], difficulty)

RECURSIVE mine(_, _)
mine(b, difficulty) ==
  IF verify_hash(b, difficulty) THEN b
  ELSE LET b1 == [b EXCEPT !.nonce = b.nonce + 1]
       IN  mine([b1 EXCEPT !.hash = calculate_hash(b1)], difficulty)

Unsealed(time, transaction, prev_block_hash) ==
  [time |-> time, transaction |-> transaction, prev_block_hash |-> prev_block_hash,
   nonce |-> 0, hash |-> <<>>]

Difficulty == 2

BlockNew(time, transaction, prev_block_hash) ==
  mine(Unsealed(time, transaction, prev_block_hash), Difficulty)

\* Block::verify: `Ok(self.transaction.verify()? && self.verify_hash(difficulty))`
BlockVerify(b, difficulty) ==
  LET verified == TransactionVerify(b.transaction)
  IN  IF ~verified.ok THEN Err ELSE Ok(verified.value /\ verify_hash(b, difficulty))

\* ------------------------------------------------------------- Blockchain
BlockchainNew == <<>>

\* add_block as it would be if every block were linked to "0"
add_block_unlinked(blockchain, transaction, time) ==
  Append(blockchain, BlockNew(time, transaction, <<"0">>))

add_block(blockchain, transaction, time) ==
  LET prev_hash == IF Len(blockchain) > 0 THEN blockchain[Len(blockchain)].hash ELSE <<"0">>
  IN  Append(blockchain, BlockNew(time, transaction, prev_hash))

\* ----------------------------------------------------------------- Ledger
GenesisCredit == 100

\* the step as it would be without the branch for from = to
BalanceStepNoSelf(balance, tx, public_key) ==
  IF public_key # tx.from /\ public_key # tx.to THEN balance
  ELSE IF public_key = tx.to THEN AddW(balance, AsI64(tx.amount))
  ELSE SubW(balance, AsI64(tx.amount))

\* One step of the loop of get_balance: the balance after one transaction.
BalanceStep(balance, tx, public_key) ==
  IF public_key # tx.from /\ public_key # tx.to THEN balance
  ELSE IF public_key = tx.from /\ public_key = tx.to THEN balance
  ELSE IF public_key = tx.to THEN AddW(balance, AsI64(tx.amount))
  ELSE SubW(balance, AsI64(tx.amount))

StepOverflows(balance, tx, public_key) ==
  IF public_key # tx.from /\ public_key # tx.to THEN FALSE
  ELSE IF public_key = tx.from /\ public_key = tx.to THEN FALSE
  ELSE IF public_key = tx.to THEN AddOverflows(balance, AsI64(tx.amount))
  ELSE SubOverflows(balance, AsI64(tx.amount))

\* get_balance: the wrapped i64 result and whether an i64 operation overflowed
\* on the way (a panic when the build checks overflow, wrapping otherwise).
RECURSIVE BalanceFrom(_, _, _, _)
BalanceFrom(blockchain, i, public_key, acc) ==
  IF i > Len(blockchain) THEN acc
  ELSE BalanceFrom(blockchain, i + 1, public_key,
         [val |-> BalanceStep(acc.val, blockchain[i].transaction, public_key),
          overflow |-> acc.overflow
                       \/ StepOverflows(acc.val, blockchain[i].transaction, public_key)])

get_balance(blockchain, public_key) ==
  BalanceFrom(blockchain, 1, public_key, [val |-> W(GenesisCredit), overflow |-> FALSE])

\* the check of send: `amount as i64 > from_balance`
InsufficientFunds(amount, from_balance) == SGreater(AsI64(amount), from_balance)

\* ------------------------------------------------------------------ state
Nodes == {"a", "b", "c"}

\* the address every node is constructed with as its one initial peer
Seed == "a"

VARIABLES
  chain,     \* chain[n]: Ledger.chain of node n
  peers,     \* peers[n]: Ledger.peers of node n
  lock,      \* lock[n]: who holds node n's Mutex<AppState>: "free", "send", "sync"
  snd,       \* snd[n]: the send handler of node n: its request, where it is, the
             \*         peers left to push to
  syn,       \* syn[n]: the reconciliation task of node n
  nsent,     \* the number of blocks appended so far, all nodes together
  nsync,     \* the number of reconciliation cycles begun so far, all nodes together
  mblock,    \* the block given to mine
  mdiff,     \* the difficulty given to mine
  mpc        \* "unsealed" before mine, "sealed" after

vars == <<chain, peers, lock, snd, syn, nsent, nsync, mblock, mdiff, mpc>>
minevars == <<mblock, mdiff, mpc>>

IdleSend == [pc |-> "idle", todo |-> {}, to |-> "p1", from |-> "s1", amount |-> W(0)]

\* the reconciliation task: pc, the snapshot temp_peers, the part of it the loop has
\* yet to visit, the peer being visited, usage_map; and, kept for the record of the
\* cycle, the chain the cycle began with, the peers whose chain was asked for and
\* those whose chain was tallied, and whether a cycle has completed
IdleSync ==
  [pc |-> "idle", temp_peers |-> {}, todo |-> {}, cur |-> Seed, usage_map |-> <<>>,
   pre |-> <<>>, asked |-> {}, tallied |-> {}, ran |-> FALSE]

\* Ledger::new
LedgerNew(initial_peers) == [chain |-> BlockchainNew, peers |-> initial_peers]

\* AppState::new: Ledger::new({127.0.0.1:3000}, my_addr())
InitNet ==
  /\ chain = [n \in Nodes |-> LedgerNew({Seed}).chain]
  /\ peers = [n \in Nodes |-> LedgerNew({Seed}).peers]
  /\ lock = [n \in Nodes |-> "free"]
  /\ snd = [n \in Nodes |-> IdleSend]
  /\ syn = [n \in Nodes |-> IdleSync]
  /\ nsent = 0
  /\ nsync = 0

InitMineIdle ==
  /\ mblock = Unsealed(1, TransactionNew("p1", "s1", W(0)), <<"0">>)
  /\ mdiff = Difficulty
  /\ mpc = "idle"

\* ------------------------------------------------------------------- send
\* send, lines 193-198, and main.rs send, line 188: the balance check fails, send
\* returns the error, and the handler answers 500 and drops its lock guard. There
\* is no await between taking the lock and dropping it, and nothing is changed.
SendReject(n, to, from, amount) ==
  /\ lock[n] = "free"
  /\ InsufficientFunds(amount, get_balance(chain[n], PublicOf(from)).val)
  /\ UNCHANGED <<chain, peers, lock, snd, syn, nsent, nsync>>

\* get_balance overflows its i64: a build with overflow checks panics there; the
\* handler's task ends, its lock guard is dropped and nothing is changed. (A build
\* without them wraps, and send goes on with the wrapped balance.)
SendPanic(n, to, from, amount) ==
  /\ lock[n] = "free"
  /\ get_balance(chain[n], PublicOf(from)).overflow
  /\ UNCHANGED <<chain, peers, lock, snd, syn, nsent, nsync>>

\* send, lines 193-200: the check passes, the block is mined and appended, and the
\* handler, still holding the lock, sets out to push the chain to self.peers
SendAccept(n, to, from, amount, time, max_sends) ==
  /\ lock[n] = "free"
  /\ nsent < max_sends
  /\ ~InsufficientFunds(amount, get_balance(chain[n], PublicOf(from)).val)
  /\ chain' = [chain EXCEPT ![n] = add_block(chain[n], TransactionNew(to, from, amount), time)]
  /\ lock' = [lock EXCEPT ![n] = "send"]
  /\ snd' = [snd EXCEPT ![n] = [pc |-> "push", todo |-> peers[n], to |-> to,
                                from |-> from, amount |-> amount]]
  /\ nsent' = nsent + 1
  /\ UNCHANGED <<peers, syn, nsync>>

\* update_blockchain as it would be if the handler did not wait for the lock
update_blockchain_unlocked(p, blockchain) ==
  chain' = [chain EXCEPT ![p] = blockchain]

\* main.rs update_blockchain + Ledger::update_blockchain, served under the lock
update_blockchain(p, blockchain) ==
  /\ lock[p] = "free"
  /\ chain' = [chain EXCEPT ![p] = blockchain]

\* send, lines 201-211: PATCH /chain to one peer, answered by the peer's handler
SendPushOk(n) ==
  /\ snd[n].pc = "push"
  /\ \E p \in snd[n].todo :
       /\ update_blockchain(p, chain[n])
       /\ snd' = [snd EXCEPT ![n].todo = @ \ {p}]
  /\ UNCHANGED <<peers, lock, syn, nsent, nsync>>

\* the push fails (peer unreachable): `.ok()` drops the error
SendPushErr(n) ==
  /\ snd[n].pc = "push"
  /\ \E p \in snd[n].todo : snd' = [snd EXCEPT ![n].todo = @ \ {p}]
  /\ UNCHANGED <<chain, peers, lock, syn, nsent, nsync>>

\* send, line 212: Ok(()); main.rs send, line 187: the handler answers 200 and its
\* lock guard is dropped
SendReturnOk(n) ==
  /\ snd[n].pc = "push"
  /\ snd[n].todo = {}
  /\ snd' = [snd EXCEPT ![n] = IdleSend]
  /\ lock' = [lock EXCEPT ![n] = "free"]
  /\ UNCHANGED <<chain, peers, syn, nsent, nsync>>

\* ------------------------------------------------------------------- sync
\* the targets as they would be if the node's own address were not skipped
SyncTargetsAll(temp_peers, addr) == temp_peers

\* the loop of sync visits the snapshot and skips the node's own address
SyncTargets(temp_peers, addr) == temp_peers \ {addr}

\* usage_map with one more occurrence of blockchain (lines 269-270, 272-273)
Tally(usage_map, blockchain) ==
  [c \in DOMAIN usage_map \cup {blockchain} |->
     IF c = blockchain
     THEN (IF c \in DOMAIN usage_map THEN usage_map[c] ELSE 0) + 1
     ELSE usage_map[c]]

None == [some |-> FALSE]
Some(x) == [some |-> TRUE, value |-> x]

\* the orders in which a HashMap or HashSet may be iterated
Orders(S) ==
  {f \in [1..Cardinality(S) -> S] : \A i, j \in 1..Cardinality(S) : i # j => f[i] # f[j]}

\* the closure as it would be under a longest-chain rule
FoldStepLongest(acc, blockchain, count) ==
  IF ~acc.best.some \/ Len(blockchain) > Len(acc.best.value)
  THEN [best |-> Some(blockchain), count |-> count] ELSE acc

\* the closure of the fold (lines 276-282)
FoldStep(acc, blockchain, count) ==
  IF count > acc.count THEN [best |-> Some(blockchain), count |-> count] ELSE acc

\* the fold over usage_map.iter(), taken in the given order (lines 274-283)
RECURSIVE FoldFrom(_, _, _, _)
FoldFrom(usage_map, order, i, acc) ==
  IF i > Len(order) THEN acc
  ELSE FoldFrom(usage_map, order, i + 1, FoldStep(acc, order[i], usage_map[order[i]]))

\* the choice as it would be if the chains of the tally were joined into one
MostPopularMerged(usage_map, order) == Some(order[1] \o order[Len(order)])

MostPopular(usage_map, order) ==
  FoldFrom(usage_map, order, 1, [best |-> None, count |-> 0]).best

\* main.rs main, lines 78-84, and sync, lines 223-225: the timer task takes the
\* lock and sync snapshots the peer set
SyncBegin(n, max_syncs) ==
  /\ lock[n] = "free"
  /\ syn[n].pc = "idle"
  /\ nsync < max_syncs
  /\ lock' = [lock EXCEPT ![n] = "sync"]
  /\ syn' = [syn EXCEPT ![n] = [pc |-> "loop", temp_peers |-> peers[n],
                                todo |-> SyncTargets(peers[n], n), cur |-> Seed,
                                usage_map |-> <<>>, pre |-> chain[n], asked |-> {},
                                tallied |-> {}, ran |-> FALSE]]
  /\ nsync' = nsync + 1
  /\ UNCHANGED <<chain, peers, snd, nsent>>

\* the for loop takes the next peer of the snapshot, in the set's iteration order
SyncPick(n) ==
  /\ syn[n].pc = "loop"
  /\ \E p \in syn[n].todo :
       syn' = [syn EXCEPT ![n].pc = "announce", ![n].cur = p, ![n].todo = @ \ {p}]
  /\ UNCHANGED <<chain, peers, lock, snd, nsent, nsync>>

\* main.rs add_peer + Ledger::add_peer, served under the peer's lock
add_peer(p, new_addr) ==
  /\ lock[p] = "free"
  /\ peers' = [peers EXCEPT ![p] = @ \cup {new_addr}]

\* sync, lines 232-237: POST /peers/{addr}, answered by the peer
AnnounceOk(n) ==
  /\ syn[n].pc = "announce"
  /\ add_peer(syn[n].cur, n)
  /\ syn' = [syn EXCEPT ![n].pc = "peers"]
  /\ UNCHANGED <<chain, lock, snd, nsent, nsync>>

\* AnnounceErr as it would be if a failed announce went on to the next peer
AnnounceErrSkips(n) ==
  /\ syn[n].pc = "announce"
  /\ syn' = [syn EXCEPT ![n].pc = "loop"]
  /\ UNCHANGED <<chain, peers, lock, snd, nsent, nsync>>

\* sync, line 238: the announce fails; the error is printed and the peer is still
\* asked for its peers
AnnounceErr(n) ==
  /\ syn[n].pc = "announce"
  /\ syn' = [syn EXCEPT ![n].pc = "peers"]
  /\ UNCHANGED <<chain, peers, lock, snd, nsent, nsync>>

\* main.rs get_peers + Ledger::get_peers, served under the peer's lock
get_peers(p) == IF lock[p] = "free" THEN Some(peers[p]) ELSE None

\* sync, lines 241-254: GET /peers, answered by the peer, and the answer merged
\* into self.peers
PeersOk(n) ==
  /\ syn[n].pc = "peers"
  /\ get_peers(syn[n].cur).some
  /\ peers' = [peers EXCEPT ![n] = @ \cup get_peers(syn[n].cur).value]
  /\ syn' = [syn EXCEPT ![n].pc = "chain", ![n].asked = @ \cup {syn[n].cur}]
  /\ UNCHANGED <<chain, lock, snd, nsent, nsync>>

\* sync, lines 242-252: the request fails or its body does not parse: continue
PeersErr(n) ==
  /\ syn[n].pc = "peers"
  /\ syn' = [syn EXCEPT ![n].pc = "loop"]
  /\ UNCHANGED <<chain, peers, lock, snd, nsent, nsync>>

\* get_blockchain as it would be if the handler answered with a new chain
get_blockchain_new(p) == IF lock[p] = "free" THEN Some(BlockchainNew) ELSE None

\* main.rs get_blockchain + Ledger::get_blockchain, served under the peer's lock
get_blockchain(p) == IF lock[p] = "free" THEN Some(chain[p]) ELSE None

\* sync, lines 255-270: GET /chain, answered by the peer, and the answer tallied
ChainOk(n) ==
  /\ syn[n].pc = "chain"
  /\ get_blockchain(syn[n].cur).some
  /\ syn' = [syn EXCEPT ![n].pc = "loop",
                        ![n].usage_map = Tally(@, get_blockchain(syn[n].cur).value),
                        ![n].tallied = @ \cup {syn[n].cur}]
  /\ UNCHANGED <<chain, peers, lock, snd, nsent, nsync>>

\* ChainErr as it would be if a failed fetch were tallied as an empty chain
ChainErrTalliesEmpty(n) ==
  /\ syn[n].pc = "chain"
  /\ syn' = [syn EXCEPT ![n].pc = "loop", ![n].usage_map = Tally(@, BlockchainNew)]
  /\ UNCHANGED <<chain, peers, lock, snd, nsent, nsync>>

\* ChainErr as it would be if a peer that fails were removed from the peer set
ChainErrDropsPeer(n) ==
  /\ syn[n].pc = "chain"
  /\ syn' = [syn EXCEPT ![n].pc = "loop"]
  /\ peers' = [peers EXCEPT ![n] = @ \ {syn[n].cur}]
  /\ UNCHANGED <<chain, lock, snd, nsent, nsync>>

\* sync, lines 260-268: the request fails, times out after 4 s or its body does not
\* parse: continue
ChainErr(n) ==
  /\ syn[n].pc = "chain"
  /\ syn' = [syn EXCEPT ![n].pc = "loop"]
  /\ UNCHANGED <<chain, peers, lock, snd, nsent, nsync>>

\* sync, lines 272-286, and the timer task dropping the lock guard (main.rs 82):
\* the self-vote, the fold, and the adoption
SyncFinish(n) ==
  /\ syn[n].pc = "loop"
  /\ syn[n].todo = {}
  /\ LET usage_map == Tally(syn[n].usage_map, chain[n])
     IN  /\ \E order \in Orders(DOMAIN usage_map) :
              LET most_popular_blockchain == MostPopular(usage_map, order)
              IN  IF most_popular_blockchain.some
                  THEN chain' = [chain EXCEPT ![n] = most_popular_blockchain.value]
                  ELSE UNCHANGED chain
         /\ syn' = [syn EXCEPT ![n].pc = "idle", ![n].cur = Seed,
                               ![n].usage_map = usage_map, ![n].ran = TRUE]
  /\ lock' = [lock EXCEPT ![n] = "free"]
  /\ UNCHANGED <<peers, snd, nsent, nsync>>

\* ----------------------------------------------------------- the network
\* the send requests the clients of the network make; the last is for more than
\* any balance can be
NetRequests ==
  {[to |-> "p2", from |-> "s1", amount |-> W(1)],
   [to |-> "p1", from |-> "s2", amount |-> W(1)],
   [to |-> "p2", from |-> "s1", amount |-> W(2 * GenesisCredit)]}

\* the values now() may return: the wall clock in milliseconds, read by each node
\* on its own; two reads may give the same value, and a later read a smaller one
Times == 1..MaxTime

\* The nodes of N serve their clients' sends, those of R run their timers.
Network(N, R, max_sends, max_syncs) ==
  \/ \E n \in N, r \in NetRequests :
       /\ SendReject(n, r.to, r.from, r.amount)
       /\ UNCHANGED minevars
  \/ \E n \in N, r \in NetRequests, time \in Times :
       /\ SendAccept(n, r.to, r.from, r.amount, time, max_sends)
       /\ UNCHANGED minevars
  \/ \E n \in N : SendPushOk(n) /\ UNCHANGED minevars
  \/ \E n \in N : SendPushErr(n) /\ UNCHANGED minevars
  \/ \E n \in N : SendReturnOk(n) /\ UNCHANGED minevars
  \/ \E n \in R : SyncBegin(n, max_syncs) /\ UNCHANGED minevars
  \/ \E n \in R : SyncPick(n) /\ UNCHANGED minevars
  \/ \E n \in R : AnnounceOk(n) /\ UNCHANGED minevars
  \/ \E n \in R : AnnounceErr(n) /\ UNCHANGED minevars
  \/ \E n \in R : PeersOk(n) /\ UNCHANGED minevars
  \/ \E n \in R : PeersErr(n) /\ UNCHANGED minevars
  \/ \E n \in R : ChainOk(n) /\ UNCHANGED minevars
  \/ \E n \in R : ChainErr(n) /\ UNCHANGED minevars
  \/ \E n \in R : SyncFinish(n) /\ UNCHANGED minevars

\* Two nodes, the seed and one more, each with its clients and its timer.
Pair == {"a", "b"}

Next == Network(Pair, Pair, MaxSends, MaxSyncs)

Init == InitNet /\ InitMineIdle

Spec == Init /\ [][Next]_vars

\* What the runtime and the peers' servers guarantee: a request to a peer whose
\* lock is free is answered, the 4 s timeout of the chain fetch fires, and a task
\* that can take its next step takes it. A transport error is never guaranteed.
Fairness ==
  \A n \in Pair :
    /\ WF_vars(SendPushOk(n) /\ UNCHANGED minevars)
    /\ WF_vars(SendReturnOk(n) /\ UNCHANGED minevars)
    /\ WF_vars(SyncPick(n) /\ UNCHANGED minevars)
    /\ WF_vars(AnnounceOk(n) /\ UNCHANGED minevars)
    /\ WF_vars(PeersOk(n) /\ UNCHANGED minevars)
    /\ WF_vars((ChainOk(n) \/ ChainErr(n)) /\ UNCHANGED minevars)
    /\ WF_vars(SyncFinish(n) /\ UNCHANGED minevars)

FairSpec == Spec /\ Fairness

\* Three nodes that have learned of one another (the peer sets that three cycles
\* against the seed leave them with), all chains still empty. The clients of the
\* seed and of one other node send; that node reconciles against the other two.
InitMesh ==
  /\ chain = [n \in Nodes |-> BlockchainNew]
  /\ peers = [n \in Nodes |-> Nodes]
  /\ lock = [n \in Nodes |-> "free"]
  /\ snd = [n \in Nodes |-> IdleSend]
  /\ syn = [n \in Nodes |-> IdleSync]
  /\ nsent = 0
  /\ nsync = 0
  /\ InitMineIdle

Reconciler == "c"

NextMesh == Network({Seed, Reconciler}, {Reconciler}, MeshSends, MeshSyncs)

SpecMesh == InitMesh /\ [][NextMesh]_vars

\* ------------------------------------------------------------ one ledger
\* The submission path alone: the clients of node b send, with amounts from all
\* over the u64 range; the seed serves the chains b pushes to it.
LedgerAmounts ==
  {W(0), W(1), W(GenesisCredit), W(GenesisCredit + 1), I64Min,
   SubW(U64Max, W(GenesisCredit)), U64Max}

Sender == "b"

NextLedger ==
  \/ \E to \in PublicKeys, from \in SecretKeys, amount \in LedgerAmounts :
       /\ SendReject(Sender, to, from, amount)
       /\ UNCHANGED minevars
  \/ \E to \in PublicKeys, from \in SecretKeys, amount \in LedgerAmounts :
       /\ SendPanic(Sender, to, from, amount)
       /\ UNCHANGED minevars
  \/ \E to \in PublicKeys, from \in SecretKeys, amount \in LedgerAmounts, time \in Times :
       /\ SendAccept(Sender, to, from, amount, time, LedgerSends)
       /\ UNCHANGED minevars
  \/ SendPushOk(Sender) /\ UNCHANGED minevars
  \/ SendPushErr(Sender) /\ UNCHANGED minevars
  \/ SendReturnOk(Sender) /\ UNCHANGED minevars

SpecLedger == Init /\ [][NextLedger]_vars

\* ----------------------------------------------------------------- mining
\* the hashes a block can have as its predecessor's
PrevHashes ==
  {<<"0">>} \cup {h \in {Encode(v, HashLen) : v \in 0..(HashSpace - 1)} :
                   StartsWith(h, Repeat0(Difficulty))}

InitMine ==
  /\ InitNet
  /\ \E time \in Times, to \in PublicKeys, from \in SecretKeys, amount \in LedgerAmounts,
        prev_block_hash \in PrevHashes :
       mblock = Unsealed(time, TransactionNew(to, from, amount), prev_block_hash)
  /\ mdiff \in 0..MaxDifficulty
  /\ mpc = "unsealed"

\* Block::mine on a block as Block::new builds it
MineBlock ==
  /\ mpc = "unsealed"
  /\ mblock' = mine(mblock, mdiff)
  /\ mpc' = "sealed"
  /\ UNCHANGED <<mdiff, chain, peers, lock, snd, syn, nsent, nsync>>

NextMine == MineBlock

SpecMine == InitMine /\ [][NextMine]_vars

\* Reconciliation alone: the timers of the two nodes, no client.
NextRecon ==
  \/ \E n \in Pair : SyncBegin(n, MaxSyncs) /\ UNCHANGED minevars
  \/ \E n \in Pair : SyncPick(n) /\ UNCHANGED minevars
  \/ \E n \in Pair : AnnounceOk(n) /\ UNCHANGED minevars
  \/ \E n \in Pair : AnnounceErr(n) /\ UNCHANGED minevars
  \/ \E n \in Pair : PeersOk(n) /\ UNCHANGED minevars
  \/ \E n \in Pair : PeersErr(n) /\ UNCHANGED minevars
  \/ \E n \in Pair : ChainOk(n) /\ UNCHANGED minevars
  \/ \E n \in Pair : ChainErr(n) /\ UNCHANGED minevars
  \/ \E n \in Pair : SyncFinish(n) /\ UNCHANGED minevars

FairRecon == Init /\ [][NextRecon]_vars /\ Fairness

\* ------------------------------------------------------ chains from clients
\* PATCH /chain takes any chain from any client. The chains a node is given here
\* are those of up to MaxChain transfers, built block by block with add_block.
HeldAmounts == {W(1), W(GenesisCredit), I64Min, U64Max}

HeldTransactions ==
  {TransactionNew(to, from, amount) :
     to \in PublicKeys, from \in SecretKeys, amount \in HeldAmounts}

RECURSIVE ChainsUpTo(_)
ChainsUpTo(k) ==
  IF k = 0 THEN {BlockchainNew}
  ELSE LET shorter == ChainsUpTo(k - 1)
       IN  shorter \cup {add_block(c, tx, time) :
                          c \in shorter, tx \in HeldTransactions, time \in Times}

InitHeld ==
  /\ chain \in {[n \in Nodes |-> c] : c \in ChainsUpTo(MaxChain)}
  /\ peers = [n \in Nodes |-> LedgerNew({Seed}).peers]
  /\ lock = [n \in Nodes |-> "free"]
  /\ snd = [n \in Nodes |-> IdleSend]
  /\ syn = [n \in Nodes |-> IdleSync]
  /\ nsent = 0
  /\ nsync = 0
  /\ InitMineIdle

\* A client appends one transfer to the chain of the seed (Blockchain::add_block)
\* and gives the node the result (PATCH /chain).
AppendTransfer(to, from, amount, time) ==
  /\ nsent = 0
  /\ update_blockchain(Seed, add_block(chain[Seed], TransactionNew(to, from, amount), time))
  /\ nsent' = nsent + 1
  /\ UNCHANGED <<peers, lock, snd, syn, nsync>>

NextHeld ==
  \E to \in PublicKeys, from \in SecretKeys, amount \in LedgerAmounts, time \in Times :
    AppendTransfer(to, from, amount, time) /\ UNCHANGED minevars

SpecHeld == InitHeld /\ [][NextHeld]_vars

\* ------------------------------------------------------- blocks received
\* A block as Block::new builds it, and the same block as it may come in a chain
\* from the network (Block and Transaction derive Deserialize): one field is not
\* what was built.
InitBuilt ==
  /\ InitNet
  /\ \E time \in Times, to \in PublicKeys, from \in SecretKeys, amount \in LedgerAmounts,
        prev_block_hash \in PrevHashes :
       mblock = BlockNew(time, TransactionNew(to, from, amount), prev_block_hash)
  /\ mdiff \in 0..MaxDifficulty
  /\ mpc = "built"

\* the strings a signature field can hold: the signatures, in hexadecimal of either
\* case, of either key on the transfers to the same recipient, and a string that
\* is no hexadecimal
SignatureStrings(tx) ==
  LET signatures == {sign_ecdsa(message_bytes(tx.to, PublicOf(sk), amount), sk) :
                       sk \in SecretKeys, amount \in LedgerAmounts}
  IN  {to_string(sig) : sig \in signatures}
        \cup {[hex |-> "upper", der |-> sig] : sig \in signatures}
        \cup {NotHex}

AlterAmount ==
  /\ mpc = "built"
  /\ \E amount \in LedgerAmounts \ {mblock.transaction.amount} :
       mblock' = [mblock EXCEPT !.transaction.amount = amount]
  /\ mpc' = "amount"
  /\ UNCHANGED <<mdiff, chain, peers, lock, snd, syn, nsent, nsync>>

AlterSignature ==
  /\ mpc = "built"
  /\ \E signature \in SignatureStrings(mblock.transaction) \ {mblock.transaction.signature} :
       mblock' = [mblock EXCEPT !.transaction.signature = signature]
  /\ mpc' = "signature"
  /\ UNCHANGED <<mdiff, chain, peers, lock, snd, syn, nsent, nsync>>

AlterNonce ==
  /\ mpc = "built"
  /\ \E nonce \in {0, mblock.nonce + 1} \ {mblock.nonce} :
       mblock' = [mblock EXCEPT !.nonce = nonce]
  /\ mpc' = "nonce"
  /\ UNCHANGED <<mdiff, chain, peers, lock, snd, syn, nsent, nsync>>

AlterHash ==
  /\ mpc = "built"
  /\ \E v \in 0..(HashSpace - 1) :
       /\ Encode(v, HashLen) # mblock.hash
       /\ mblock' = [mblock EXCEPT !.hash = Encode(v, HashLen)]
  /\ mpc' = "hash"
  /\ UNCHANGED <<mdiff, chain, peers, lock, snd, syn, nsent, nsync>>

NextBuilt == AlterAmount \/ AlterSignature \/ AlterNonce \/ AlterHash

SpecBuilt == InitBuilt /\ [][NextBuilt]_vars

\* ------------------------------------------------------ nodes in agreement
\* Reconciliation alone on the nodes of R: their timers, no client.
Reconciliation(R, max_syncs) ==
  \/ \E n \in R : SyncBegin(n, max_syncs) /\ UNCHANGED minevars
  \/ \E n \in R : SyncPick(n) /\ UNCHANGED minevars
  \/ \E n \in R : AnnounceOk(n) /\ UNCHANGED minevars
  \/ \E n \in R : AnnounceErr(n) /\ UNCHANGED minevars
  \/ \E n \in R : PeersOk(n) /\ UNCHANGED minevars
  \/ \E n \in R : PeersErr(n) /\ UNCHANGED minevars
  \/ \E n \in R : ChainOk(n) /\ UNCHANGED minevars
  \/ \E n \in R : ChainErr(n) /\ UNCHANGED minevars
  \/ \E n \in R : SyncFinish(n) /\ UNCHANGED minevars

\* the chains the nodes may agree on: none, one or two transfers
AgreedChains ==
  LET first == {add_block(BlockchainNew, TransactionNew("p2", "s1", W(1)), time) :
                  time \in Times}
  IN  {BlockchainNew} \cup first
        \cup {add_block(c, TransactionNew("p1", "s2", W(1)), time) : c \in first, time \in Times}

\* Three nodes as they are constructed, all holding the same chain (pushed to them
\* by a send, or given to each by a client).
InitAgreed ==
  /\ chain \in {[n \in Nodes |-> c] : c \in AgreedChains}
  /\ peers = [n \in Nodes |-> LedgerNew({Seed}).peers]
  /\ lock = [n \in Nodes |-> "free"]
  /\ snd = [n \in Nodes |-> IdleSend]
  /\ syn = [n \in Nodes |-> IdleSync]
  /\ nsent = 0
  /\ nsync = 0
  /\ InitMineIdle

NextAgreed == Reconciliation(Nodes, MaxSyncs)

SpecAgreed == InitAgreed /\ [][NextAgreed]_vars

\* ================================================================= claims
Last(s) == s[Len(s)]

\* a send call of node n passes the balance check in this step
SendPasses(n) == snd[n].pc = "idle" /\ snd'[n].pc = "push"

\* the reconciliation cycle of node n ends in this step
CycleEnds(n) == syn[n].pc = "loop" /\ syn'[n].pc = "idle"

\* a reconciliation cycle of node n has ended and none has begun since
CycleDone(n) == syn[n].pc = "idle" /\ syn[n].ran

\* C1: a send whose amount exceeds the sender's balance does not pass the check:
\* it is answered with the insufficient-funds error and the chain stays as it was.
C1_ExceedingAmountRejected ==
  [][\A n \in Nodes :
       (SendPasses(n)
        /\ AmountExceeds(snd'[n].amount, get_balance(chain[n], PublicOf(snd'[n].from)).val))
       => chain'[n] = chain[n]]_vars

\* C2: whatever sends were made, every key's balance is at least 0 on every node.
C2_BalancesNonNegative ==
  \A n \in Nodes, k \in PublicKeys : ~IsNeg(get_balance(chain[n], k).val)

\* C3: a send that passed the balance check eventually returns to its caller.
C3_SendReturns ==
  \A n \in Pair : (snd[n].pc = "push") ~> (snd[n].pc = "idle")

\* C4: a reconciliation cycle that has begun eventually completes and releases the
\* node's lock.
C4_SyncCompletes ==
  \A n \in Pair : (syn[n].pc # "idle") ~> (syn[n].pc = "idle" /\ lock[n] # "sync")

\* the number of peers that returned chain c in a cycle that began with chain pre
\* and ended with the tallies final
PeerVotes(final, pre, c) == final[c] - (IF c = pre THEN 1 ELSE 0)

\* C5: when a cycle ends and one chain was returned by strictly more peers than the
\* tally of every other chain (the self-vote counted for the local chain), the
\* local chain after the cycle is that chain, whatever the lengths.
C5_MajorityAdopted ==
  [][\A n \in Nodes :
       CycleEnds(n) =>
         LET final == syn'[n].usage_map
         IN  \A c \in DOMAIN final :
               (\A c2 \in DOMAIN final \ {c} : PeerVotes(final, chain[n], c) > final[c2])
               => chain'[n] = c]_vars

\* a node that held two blocks ended a cycle in which both its peers returned its
\* one-block prefix, and holds that prefix
C5_ShorterMajorityAdopted ==
  \E n \in Nodes :
    /\ CycleDone(n)
    /\ Len(syn[n].pre) = 2
    /\ chain[n] = <<syn[n].pre[1]>>
    /\ Cardinality(syn[n].tallied) = 2
    /\ syn[n].usage_map[chain[n]] = 2
    /\ syn[n].usage_map[syn[n].pre] = 1

\* C6: when a cycle ends in which no peer's chain was tallied, the local chain
\* after the cycle is the local chain before it.
C6_NoResponseKeepsChain ==
  [][\A n \in Nodes :
       (CycleEnds(n) /\ syn[n].tallied = {}) => chain'[n] = chain[n]]_vars

\* a node with a peer that holds another chain ended a cycle in which nobody
\* responded, and holds the non-empty chain it began with
C6_KeptAfterSilence ==
  \E n \in Nodes :
    /\ CycleDone(n)
    /\ syn[n].tallied = {}
    /\ \E p \in syn[n].temp_peers \ {n} : chain[p] # chain[n]
    /\ Len(chain[n]) > 0
    /\ chain[n] = syn[n].pre

\* C7: a peer whose chain fetch fails leaves every tally as it was, and is still in
\* the peer set when the cycle ends.
C7_FailedFetchNoVote ==
  [][\A n \in Nodes :
       /\ (syn[n].pc = "chain" /\ syn'[n].pc = "loop" /\ syn[n].cur \notin syn'[n].tallied)
          => syn'[n].usage_map = syn[n].usage_map
       /\ CycleEnds(n) => (syn[n].asked \ syn[n].tallied) \subseteq peers'[n]]_vars

\* a cycle has ended in which a peer's chain was asked for and not tallied; the
\* only tally is the self-vote, and the peer is in the peer set
C7_FailedPeerKept ==
  \E n \in Nodes :
    /\ CycleDone(n)
    /\ \E p \in syn[n].asked \ syn[n].tallied : p \in peers[n]
    /\ syn[n].tallied = {}
    /\ DOMAIN syn[n].usage_map = {syn[n].pre}
    /\ syn[n].usage_map[syn[n].pre] = 1

\* C8: a send that passes the check appends exactly one block, carrying the
\* request's transaction, to the chain; from there to its return neither the
\* chain nor the peer set of the node changes, and the only way on is the return.
C8_SendAppendsOneBlock ==
  [][\A n \in Nodes :
       /\ SendPasses(n) =>
            /\ Len(chain'[n]) = Len(chain[n]) + 1
            /\ SubSeq(chain'[n], 1, Len(chain[n])) = chain[n]
            /\ Last(chain'[n]).transaction.from = PublicOf(snd'[n].from)
            /\ Last(chain'[n]).transaction.to = snd'[n].to
            /\ Last(chain'[n]).transaction.amount = snd'[n].amount
            /\ peers'[n] = peers[n]
       /\ snd[n].pc = "push" =>
            /\ chain'[n] = chain[n]
            /\ peers'[n] = peers[n]
            /\ snd'[n].pc \in {"push", "idle"}]_vars

\* a send is about to return after every push went unanswered: a peer still holds
\* another chain, and the node holds the chain with the new block
C8_ReturnsAfterFailedPushes ==
  \E n \in Nodes :
    /\ snd[n].pc = "push"
    /\ snd[n].todo = {}
    /\ peers[n] \ {n} # {}
    /\ \A p \in peers[n] \ {n} : chain[p] # chain[n]
    /\ Len(chain[n]) = 2
    /\ Last(chain[n]).transaction.amount = snd[n].amount

Linked(blockchain) ==
  \A i \in 1..Len(blockchain) :
    blockchain[i].prev_block_hash = IF i = 1 THEN <<"0">> ELSE blockchain[i - 1].hash

\* C9: on every node, the first block's prev_block_hash is "0" and every other
\* block's prev_block_hash is the hash of the block before it.
C9_ChainLinkage == \A n \in Nodes : Linked(chain[n])

\* a node holds a two-block chain that it took over in reconciliation
C9_LinkedAfterAdoption ==
  \E n \in Nodes :
    /\ CycleDone(n)
    /\ chain[n] # syn[n].pre
    /\ Len(chain[n]) = 2
    /\ chain[n][2].prev_block_hash = chain[n][1].hash

HashAt(b, k) == calculate_hash([b EXCEPT !.nonce = k])

\* C10 as stated: the mined block's hash is the hash of its fields and has d
\* leading "0"s, and no smaller nonce, 0 included, gives such a hash.
C10_SmallestNonNegativeNonce ==
  mpc = "sealed" =>
    /\ mblock.hash = calculate_hash(mblock)
    /\ verify_hash(mblock, mdiff)
    /\ \A k \in 0..(mblock.nonce - 1) : ~StartsWith(HashAt(mblock, k), Repeat0(mdiff))

\* C10, amended: for d >= 1 the mined block's hash is the hash of its fields and has
\* d leading "0"s, and its nonce is the smallest integer from 1 up that gives such a
\* hash; for d = 0 the block is left as it was built, nonce 0 and the empty hash.
C10_SmallestPositiveNonce ==
  mpc = "sealed" =>
    IF mdiff = 0
    THEN mblock.nonce = 0 /\ mblock.hash = <<>>
    ELSE /\ mblock.hash = calculate_hash(mblock)
         /\ verify_hash(mblock, mdiff)
         /\ mblock.nonce >= 1
         /\ \A k \in 1..(mblock.nonce - 1) : ~StartsWith(HashAt(mblock, k), Repeat0(mdiff))

\* a block mined at the difficulty of the system after several tries, although
\* nonce 0, which mine never tries, gives a hash with the zeros
C10_MinedPastNonceZero ==
  /\ mpc = "sealed"
  /\ mdiff = Difficulty
  /\ mblock.nonce > 1
  /\ StartsWith(HashAt(mblock, 0), Repeat0(mdiff))

\* a block was appended to the chain of node n in this step
Appended(n) ==
  /\ Len(chain'[n]) = Len(chain[n]) + 1
  /\ SubSeq(chain'[n], 1, Len(chain[n])) = chain[n]

\* C11: appending a transaction whose from and to are the same key leaves the
\* balance of every key, that key included, as it was.
C11_SelfTransferNeutral ==
  [][(Appended(Seed) /\ Last(chain'[Seed]).transaction.from = Last(chain'[Seed]).transaction.to)
     => \A k \in PublicKeys : get_balance(chain'[Seed], k) = get_balance(chain[Seed], k)]_vars

\* a self-transfer of the whole u64 range was appended to a chain in which its key
\* had sent and received, and the key's balance is not the genesis credit
C11_SelfTransferAppended ==
  /\ nsent = 1
  /\ Len(chain[Seed]) = MaxChain + 1
  /\ Last(chain[Seed]).transaction.from = Last(chain[Seed]).transaction.to
  /\ Last(chain[Seed]).transaction.amount = U64Max
  /\ \E i, j \in 1..MaxChain :
       /\ chain[Seed][i].transaction.from = Last(chain[Seed]).transaction.from
       /\ chain[Seed][i].transaction.to # Last(chain[Seed]).transaction.from
       /\ chain[Seed][j].transaction.to = Last(chain[Seed]).transaction.from
       /\ chain[Seed][j].transaction.from # Last(chain[Seed]).transaction.from
  /\ get_balance(chain[Seed], Last(chain[Seed]).transaction.from).val # W(GenesisCredit)

\* C12: verify on a transaction as new built it is true; on a copy in which only
\* the amount or only the signature is another, verify is false, and not an error.
C12_VerifyTrueOnlyAsBuilt ==
  /\ mpc = "built" => TransactionVerify(mblock.transaction) = Ok(TRUE)
  /\ mpc \in {"amount", "signature"} => TransactionVerify(mblock.transaction) = Ok(FALSE)

\* C13: verify(d) is true exactly when the stored hash is the hash of the block's
\* own fields and has d leading "0"s and the transaction's signature verifies.
C13_VerifyRederivesHash ==
  (BlockVerify(mblock, mdiff) = Ok(TRUE))
    <=> /\ mblock.hash = calculate_hash(mblock)
        /\ StartsWith(mblock.hash, Repeat0(mdiff))
        /\ TransactionVerify(mblock.transaction) = Ok(TRUE)

\* C14: from the beginning of a cycle to its last step, no step changes the chain
\* or the peer set of the node: all the cycle changes, it changes in its last step.
C14_NoChangeBeforeAdoption ==
  [][\A n \in Nodes :
       (syn[n].pc # "idle" /\ ~CycleEnds(n))
       => (chain'[n] = chain[n] /\ peers'[n] = peers[n])]_vars

\* the sum of all tallies of a usage_map
RECURSIVE SumTallies(_)
SumTallies(usage_map) ==
  IF DOMAIN usage_map = {} THEN 0
  ELSE LET c == CHOOSE x \in DOMAIN usage_map : TRUE
       IN  usage_map[c] + SumTallies([x \in DOMAIN usage_map \ {c} |-> usage_map[x]])

\* C15: the snapshot is the peer set at the start of the cycle and stays as taken;
\* every peer the cycle contacts is in the snapshot and is not the node itself;
\* and when the cycle ends the tallies sum to 1 plus the number of snapshot peers,
\* the node aside, whose peer list and chain were both fetched.
C15_TalliesCountSnapshotPeers ==
  [][\A n \in Nodes :
       /\ (syn[n].pc = "idle" /\ syn'[n].pc # "idle") => syn'[n].temp_peers = peers[n]
       /\ (syn[n].pc # "idle") => syn'[n].temp_peers = syn[n].temp_peers
       /\ syn'[n].pc \in {"announce", "peers", "chain"}
            => syn'[n].cur \in syn'[n].temp_peers \ {n}
       /\ CycleEnds(n) =>
            /\ syn[n].tallied \subseteq syn[n].asked
            /\ syn[n].asked \subseteq syn[n].temp_peers \ {n}
            /\ SumTallies(syn'[n].usage_map) = 1 + Cardinality(syn[n].tallied)]_vars

\* a cycle is at its last step whose snapshot held the node itself, which learned
\* of another peer on the way, and which tallied one peer's chain
C15_LearnedPeerNotCounted ==
  \E n \in Nodes :
    /\ syn[n].pc = "loop"
    /\ syn[n].todo = {}
    /\ n \in syn[n].temp_peers
    /\ (peers[n] \ syn[n].temp_peers) \ {n} # {}
    /\ Cardinality(syn[n].tallied) = 1
    /\ SumTallies(syn[n].usage_map) = 1

\* C16: when a cycle ends, the local chain is, block for block, the local chain
\* before the last step or one of the chains the peers returned in the cycle.
C16_ReplacesNeverMerges ==
  [][\A n \in Nodes :
       CycleEnds(n) => (chain'[n] = chain[n] \/ chain'[n] \in DOMAIN syn[n].usage_map)]_vars

\* a node that held a block of its own ended a cycle holding the different,
\* non-empty chain a peer returned, and none of its own blocks
C16_ReplacedByPeerChain ==
  \E n \in Nodes :
    /\ CycleDone(n)
    /\ Len(syn[n].pre) > 0
    /\ Len(chain[n]) > 0
    /\ chain[n] # syn[n].pre
    /\ \A i \in 1..Len(chain[n]) : \A j \in 1..Len(syn[n].pre) : chain[n][i] # syn[n].pre[j]
    /\ syn[n].tallied # {}
    /\ chain[n] \in DOMAIN syn[n].usage_map
    /\ syn[n].usage_map[chain[n]] = 1

\* C17: a peer whose announce failed is asked for its peers next; a peer list that
\* is fetched is merged into the peer set and the peer is asked for its chain; a
\* chain that is fetched is tallied once; and a peer whose peer list is not
\* fetched is left for the next peer with no tally.
C17_FailedAnnounceStillProcessed ==
  [][\A n \in Nodes :
       syn'[n] # syn[n] =>
         /\ (syn[n].pc = "announce" /\ n \notin peers'[syn[n].cur])
              => (syn'[n].pc = "peers" /\ syn'[n].cur = syn[n].cur)
         /\ (syn[n].pc = "peers" /\ syn[n].cur \in syn'[n].asked)
              => /\ syn'[n].pc = "chain"
                 /\ syn'[n].cur = syn[n].cur
                 /\ peers'[n] = peers[n] \cup peers[syn[n].cur]
         /\ (syn[n].pc = "chain" /\ syn[n].cur \in syn'[n].tallied)
              => syn'[n].usage_map = Tally(syn[n].usage_map, chain[syn[n].cur])
         /\ (syn[n].pc = "peers" /\ syn[n].cur \notin syn'[n].asked)
              => /\ syn'[n].pc = "loop"
                 /\ syn'[n].usage_map = syn[n].usage_map
                 /\ syn[n].cur \notin syn'[n].tallied
         /\ CycleEnds(n) => syn[n].tallied \subseteq syn[n].asked]_vars

\* a cycle has ended in which one peer, which never had the node's announce, gave
\* its peers and its chain and was tallied, and another peer's peer list was not
\* fetched and its chain not tallied
C17_UnannouncedPeerTallied ==
  \E n \in Nodes :
    /\ CycleDone(n)
    /\ \E p \in syn[n].tallied :
         /\ n \notin peers[p]
         /\ peers[p] \subseteq peers[n]
         /\ chain[p] \in DOMAIN syn[n].usage_map
         /\ syn[n].usage_map[chain[p]] >= 2
    /\ \E q \in syn[n].temp_peers \ {n} : q \notin syn[n].asked /\ q \notin syn[n].tallied

\* the keys that send or receive in a chain
Parties(blockchain) ==
  {blockchain[i].transaction.from : i \in 1..Len(blockchain)}
    \cup {blockchain[i].transaction.to : i \in 1..Len(blockchain)}

\* the balances of the keys of K add up to total: every balance is returned, no
\* addition leaves the i64 range, and the sum is total
RECURSIVE SumsTo(_, _, _, _)
SumsTo(blockchain, K, acc, total) ==
  IF K = {} THEN acc = total
  ELSE LET k == CHOOSE x \in K : TRUE
           balance == get_balance(blockchain, k)
       IN  /\ ~balance.overflow
           /\ ~AddOverflows(acc, balance.val)
           /\ SumsTo(blockchain, K \ {k}, AddW(acc, balance.val), total)

\* C18: on every node, for every set K of keys that holds all the senders and
\* recipients of the chain, the balances of K add up to 100 times the size of K.
C18_BalanceConserved ==
  \A n \in Nodes : \A K \in SUBSET PublicKeys :
    Parties(chain[n]) \subseteq K
    => SumsTo(chain[n], K, W(0), W(GenesisCredit * Cardinality(K)))

\* C19: a step taken when all nodes hold the same chain leaves every node's chain
\* as it was.
C19_AgreementStable ==
  [][(\A n, m \in Nodes : chain[n] = chain[m]) => chain' = chain]_vars

\* a node holding the two-block chain of all has ended a cycle in which one peer's
\* chain was tallied and another peer's was not, while another node is in a cycle
C19_AgreedAfterPartialCycle ==
  \E n \in Nodes :
    /\ CycleDone(n)
    /\ Len(chain[n]) = 2
    /\ \A m \in Nodes : chain[m] = chain[n]
    /\ syn[n].tallied # {}
    /\ (syn[n].temp_peers \ {n}) \ syn[n].tallied # {}
    /\ syn[n].usage_map[chain[n]] = 2
    /\ \E m \in Nodes \ {n} : syn[m].pc # "idle"

====
